---- MODULE Spec2Model ----
(***************************************************************************)
(* TX Analyzer (apps/tx-analyzer/src/main.py): a FastAPI application with  *)
(* four GET routes returning literal JSON, a CORS middleware configured    *)
(* with wildcards, and a __main__ block that starts uvicorn on 0.0.0.0 at  *)
(* the port read from the environment variable PORT.                       *)
(*                                                                         *)
(* A request travels: server accepts it (Receive), the CORS middleware     *)
(* (CORSMiddlewareCall), the router and the endpoint (RouterCall), the     *)
(* serialisation and the send through the CORS send wrapper (Send), and    *)
(* the end of the request (Close).  Several requests may be between these  *)
(* steps at the same time.                                                 *)
(*                                                                         *)
(* Strings the code takes apart are sequences of tokens: a path is a       *)
(* sequence over "/", "\n" and names ("/health/" is <<"/","health","/">>), *)
(* the value of PORT a sequence of characters.                             *)
(***************************************************************************)
EXTENDS Integers, Sequences, FiniteSets, TLC

VARIABLES env, phase, uvicorn_run, conn, heap, served

vars == <<env, phase, uvicorn_run, conn, heap, served>>

\* ------------------------------------------------------------------ bounds
\* Requests that may be in flight at the same time.
MaxInFlight == 2
\* Requests the model completes before it stops accepting new ones.
MaxServed == 2

\* ------------------------------------------------------------------ helpers
None == "<none>"
NL == "\n"
EmptyMap == [k \in {} |-> None]

RECURSIVE rstrip(_)
\* str.rstrip("/"): drop every trailing "/".
rstrip(p) ==
  IF Len(p) > 0 /\ p[Len(p)] = "/" THEN rstrip(SubSeq(p, 1, Len(p) - 1)) ELSE p

endswith_slash(p) == Len(p) > 0 /\ p[Len(p)] = "/"

\* A route that matched only the whole string.
path_regex_fullmatch(path, s) == s = path

\* re.compile("^" + re.escape(path) + "$").match(s): in Python "$" matches at
\* the end of the string and also just before a newline that ends the string.
path_regex_match(path, s) == s = path \/ s = path \o <<NL>>

\* ------------------------------------------------------------------ startup
DefaultPort == 8002
Host == "0.0.0.0"

Digit == [c \in {"0", "1", "2", "3", "4", "5", "6", "7", "8", "9"} |->
            CASE c = "0" -> 0 [] c = "1" -> 1 [] c = "2" -> 2 [] c = "3" -> 3
              [] c = "4" -> 4 [] c = "5" -> 5 [] c = "6" -> 6 [] c = "7" -> 7
              [] c = "8" -> 8 [] c = "9" -> 9]
Whitespace == {" ", "\t", NL}

RECURSIVE lstrip_ws(_)
lstrip_ws(s) == IF Len(s) > 0 /\ s[1] \in Whitespace THEN lstrip_ws(Tail(s)) ELSE s
RECURSIVE rstrip_ws(_)
rstrip_ws(s) ==
  IF Len(s) > 0 /\ s[Len(s)] \in Whitespace THEN rstrip_ws(SubSeq(s, 1, Len(s) - 1)) ELSE s

RECURSIVE digits_value(_, _)
\* The digits of s read left to right, acc being the value read so far.
digits_value(s, acc) ==
  IF s = <<>> THEN acc ELSE digits_value(Tail(s), 10 * acc + Digit[s[1]])

\* int(x) of a str: surrounding whitespace is ignored, one sign is accepted,
\* then at least one decimal digit; anything else raises ValueError.
int_str(s) ==
  LET t == rstrip_ws(lstrip_ws(s))
      signed == Len(t) > 0 /\ t[1] \in {"+", "-"}
      d == IF signed THEN Tail(t) ELSE t
      ok == Len(d) > 0 /\ \A i \in 1..Len(d) : d[i] \in DOMAIN Digit
  IN IF ~ok THEN [ok |-> FALSE, value |-> 0]
     ELSE [ok |-> TRUE,
           value |-> IF signed /\ t[1] = "-" THEN 0 - digits_value(d, 0)
                     ELSE digits_value(d, 0)]

\* The environment: PORT unset, or set to a string.
Unset == [set |-> FALSE, value |-> <<>>]
PortStrings ==
  { <<"9", "0", "0", "0">>, <<"8", "0", "0", "2">>, <<" ", "8", "0", NL>>,
    <<"a", "b", "c">>, <<>>, <<"8", "0", "0", "2", "x">> }
Environments == {Unset} \cup {[set |-> TRUE, value |-> s] : s \in PortStrings}

\* A start that ignored the environment.
port_of_default(e) == [ok |-> TRUE, value |-> DefaultPort]

\* int(os.getenv("PORT", 8002)): the default is the int 8002, which int()
\* returns unchanged; a set variable is a str, which int() parses.
port_of(e) ==
  IF e.set THEN int_str(e.value) ELSE [ok |-> TRUE, value |-> DefaultPort]

NotStarted == [host |-> None, port |-> 0]

\* ------------------------------------------------------------------ requests
Methods == {"GET", "POST", "PUT", "DELETE", "PATCH", "HEAD", "OPTIONS", "TRACE"}

RootPath == <<"/">>
HealthPath == <<"/", "health">>
AnalyzePath == <<"/", "api", "/", "v1", "/", "analyze">>
AnomaliesPath == <<"/", "api", "/", "v1", "/", "anomalies">>
AppPaths == {RootPath, HealthPath, AnalyzePath, AnomaliesPath}

OpenapiPath == <<"/", "openapi.json">>
DocsPath == <<"/", "docs">>
OAuth2RedirectPath == <<"/", "docs", "/", "oauth2-redirect">>
RedocPath == <<"/", "redoc">>
DocPaths == {OpenapiPath, DocsPath, OAuth2RedirectPath, RedocPath}

\* Paths no route is registered for.
OtherPaths ==
  { <<"/", "nope">>, <<"/", "/">>, <<"/", "health", "/">>,
    <<"/", "health", "/", "/">>, <<"/", "health", NL>>, <<"/", "docs", "/">> }
Paths == AppPaths \cup {DocsPath} \cup OtherPaths

Origins == {"https://a.example"}
RequestedMethods == {"PUT", "TRACE"}
RequestedHeaders == {"x-custom, authorization"}
Queries == {"", "limit=5"}

\* A request: its method, path and query string, and the headers the code
\* reads (None for an absent header; cookie is whether a Cookie header came).
Requests ==
  [method : Methods, path : Paths, query : Queries,
   origin : Origins \cup {None},
   acrm : RequestedMethods \cup {None},
   acrh : RequestedHeaders \cup {None},
   cookie : BOOLEAN]

\* The requests used where several are in flight at once.
ConcRequests ==
  { r \in Requests :
      /\ r.path \in AppPaths
      /\ r.query = "" /\ r.acrm = None /\ r.acrh = None /\ ~r.cookie
      /\ \/ r.method = "GET"
         \/ r.method = "POST" /\ r.origin = None }

\* ------------------------------------------------------------------ endpoints
\* An endpoint's return value: the dict's scalar items, its list items as
\* references to list objects, and the list objects the call creates (a
\* list display creates a new object each time it is evaluated; o is the
\* address the new object gets).
\* Variants of the endpoints: another version string, another status, the
\* features in another order, one list object shared by every call, a total
\* that counts the requests served.
root_v1 ==
  [scalars |-> [message |-> "TX Analyzer API", version |-> "1.0"],
   lists |-> EmptyMap, alloc |-> EmptyMap]

health_check_ok ==
  [scalars |-> [status |-> "ok", service |-> "tx-analyzer"],
   lists |-> EmptyMap, alloc |-> EmptyMap]

analyze_transactions_reordered(o) ==
  [scalars |-> [message |-> "Transaction analysis endpoint",
                status |-> "not implemented"],
   lists |-> [features |-> o],
   alloc |-> (o :> <<"Risk scoring", "Anomaly detection",
                     "Whale identification", "Pattern recognition">>)]

get_anomalies_shared(o) ==
  [scalars |-> [total |-> 0, message |-> "No anomalies detected"],
   lists |-> [anomalies |-> 1],
   alloc |-> (1 :> <<>>)]

get_anomalies_counting(o) ==
  [scalars |-> [total |-> served, message |-> "No anomalies detected"],
   lists |-> [anomalies |-> o],
   alloc |-> (o :> <<>>)]

root ==
  [scalars |-> [message |-> "TX Analyzer API", version |-> "1.0.0"],
   lists |-> EmptyMap, alloc |-> EmptyMap]

health_check ==
  [scalars |-> [status |-> "healthy", service |-> "tx-analyzer"],
   lists |-> EmptyMap, alloc |-> EmptyMap]

analyze_transactions(o) ==
  [scalars |-> [message |-> "Transaction analysis endpoint",
                status |-> "not implemented"],
   lists |-> [features |-> o],
   alloc |-> (o :> <<"Anomaly detection", "Risk scoring",
                     "Whale identification", "Pattern recognition">>)]

get_anomalies(o) ==
  [scalars |-> [total |-> 0, message |-> "No anomalies detected"],
   lists |-> [anomalies |-> o],
   alloc |-> (o :> <<>>)]

\* The documentation endpoints FastAPI registers for docs_url="/docs",
\* redoc_url="/redoc" and the default openapi_url; their content is opaque.
doc_endpoint(name) ==
  [scalars |-> [document |-> name], lists |-> EmptyMap, alloc |-> EmptyMap]

call_endpoint(name, o) ==
  CASE name = "root" -> root
    [] name = "health_check" -> health_check
    [] name = "analyze_transactions" -> analyze_transactions(o)
    [] name = "get_anomalies" -> get_anomalies(o)
    [] OTHER -> doc_endpoint(name)

\* ------------------------------------------------------------------ routing
\* Routes that answered HEAD as well.
get_methods_with_head == {"GET", "HEAD"}

\* @app.get registers an APIRoute whose methods are exactly {"GET"}.
get_methods == {"GET"}
\* add_route (the documentation routes) registers a Route, which adds HEAD
\* to GET.
doc_methods == {"GET", "HEAD"}

\* app.routes in registration order: the documentation routes are added
\* when the FastAPI object is constructed, the decorated ones after.
routes ==
  << [path |-> OpenapiPath, methods |-> doc_methods, endpoint |-> "openapi"],
     [path |-> DocsPath, methods |-> doc_methods, endpoint |-> "swagger_ui_html"],
     [path |-> OAuth2RedirectPath, methods |-> doc_methods,
      endpoint |-> "swagger_ui_redirect"],
     [path |-> RedocPath, methods |-> doc_methods, endpoint |-> "redoc_html"],
     [path |-> RootPath, methods |-> get_methods, endpoint |-> "root"],
     [path |-> HealthPath, methods |-> get_methods, endpoint |-> "health_check"],
     [path |-> AnalyzePath, methods |-> get_methods,
      endpoint |-> "analyze_transactions"],
     [path |-> AnomaliesPath, methods |-> get_methods,
      endpoint |-> "get_anomalies"] >>

\* Route.matches
matches(route, method, path) ==
  IF path_regex_match(route.path, path)
  THEN IF method \notin route.methods THEN "PARTIAL" ELSE "FULL"
  ELSE "NONE"

first_match(kinds, method, path) ==
  LET hits == {i \in 1..Len(routes) : matches(routes[i], method, path) \in kinds}
  IN IF hits = {} THEN 0 ELSE CHOOSE i \in hits : \A j \in hits : i <= j

\* redirect_slashes: the path with its trailing slashes removed, or with one
\* slash added.
redirect_path(path) == IF endswith_slash(path) THEN rstrip(path) ELSE Append(path, "/")

\* Router.app: the first fully matching route handles the request, else the
\* first route matching the path alone (405), else a redirect when the path
\* with the slash toggled matches a route, else the default (404).
dispatch(method, path) ==
  LET full == first_match({"FULL"}, method, path)
      partial == first_match({"PARTIAL"}, method, path)
  IN IF full # 0 THEN [kind |-> "endpoint", route |-> full]
     ELSE IF partial # 0 THEN [kind |-> "method_not_allowed", route |-> partial]
     ELSE IF path # RootPath
             /\ first_match({"FULL", "PARTIAL"}, method, redirect_path(path)) # 0
          THEN [kind |-> "redirect", route |-> 0]
     ELSE [kind |-> "not_found", route |-> 0]

\* ------------------------------------------------------------------ CORS
\* Narrower CORS settings.
allow_origins_listed == {"https://app.example"}
allow_credentials_off == FALSE

\* The arguments of app.add_middleware(CORSMiddleware, ...).
allow_origins == {"*"}
allow_credentials == TRUE
allow_methods == {"*"}
allow_headers == {"*"}

\* CORSMiddleware.__init__: "*" among the methods stands for these seven.
ALL_METHODS == <<"DELETE", "GET", "HEAD", "OPTIONS", "PATCH", "POST", "PUT">>
Range(f) == {f[i] : i \in DOMAIN f}
cors_allow_methods == IF "*" \in allow_methods THEN Range(ALL_METHODS) ELSE allow_methods
allow_all_origins == "*" \in allow_origins
allow_all_headers == "*" \in allow_headers
preflight_explicit_allow_origin == ~allow_all_origins \/ allow_credentials

ACAO == "access-control-allow-origin"
ACAC == "access-control-allow-credentials"
ACAM == "access-control-allow-methods"
ACAH == "access-control-allow-headers"
ACMA == "access-control-max-age"
VARY == "vary"
CorsHeaderNames == {ACAO, ACAC, ACAM, ACAH, ACMA}

simple_headers ==
  (IF allow_all_origins THEN (ACAO :> "*") ELSE EmptyMap)
  @@ (IF allow_credentials THEN (ACAC :> "true") ELSE EmptyMap)

preflight_headers ==
  (IF preflight_explicit_allow_origin THEN (VARY :> "Origin") ELSE (ACAO :> "*"))
  @@ (ACAM :> cors_allow_methods) @@ (ACMA :> "600")
  @@ (IF allow_credentials THEN (ACAC :> "true") ELSE EmptyMap)

is_allowed_origin(origin) == allow_all_origins \/ origin \in allow_origins

\* A response as it is sent: status, body, headers.
NoResponse == [status |-> 0, body |-> EmptyMap, headers |-> EmptyMap]
\* A response as the application hands it to send: the body still holds
\* references to the endpoint's list objects.
NoPending == [status |-> 0, scalars |-> EmptyMap, lists |-> EmptyMap, headers |-> EmptyMap]

\* CORSMiddleware.preflight_response.  With allow_headers=["*"] the requested
\* headers are mirrored back and never checked.
preflight_response(req) ==
  LET origin_ok == is_allowed_origin(req.origin)
      method_ok == req.acrm \in cors_allow_methods
      failures == (IF origin_ok THEN <<>> ELSE <<"origin">>)
                  \o (IF method_ok THEN <<>> ELSE <<"method">>)
      headers ==
        (IF origin_ok /\ preflight_explicit_allow_origin
         THEN (ACAO :> req.origin) ELSE EmptyMap)
        @@ (IF allow_all_headers /\ req.acrh # None
            THEN (ACAH :> req.acrh) ELSE EmptyMap)
        @@ preflight_headers
  IN IF failures # <<>>
     THEN [status |-> 400, body |-> [text |-> <<"Disallowed CORS">> \o failures],
           headers |-> headers]
     ELSE [status |-> 200, body |-> [text |-> <<"OK">>], headers |-> headers]

\* CORSMiddleware.send: the headers added to the response of a request that
\* carried an Origin header and was passed on to the application.
cors_send_headers(req, headers) ==
  IF (allow_all_origins /\ req.cookie)
     \/ (~allow_all_origins /\ is_allowed_origin(req.origin))
  THEN (ACAO :> req.origin) @@ (VARY :> "Origin") @@ simple_headers @@ headers
  ELSE simple_headers @@ headers

\* ------------------------------------------------------------------ state
Slots == 1..MaxInFlight

NoRequest ==
  [method |-> None, path |-> <<>>, query |-> "", origin |-> None,
   acrm |-> None, acrh |-> None, cookie |-> FALSE]

\* A connection: where its request is (idle, cors, router, send, done), the
\* request, whether the CORS send wrapper is installed, the response the
\* application produced and the response that went out.
Idle ==
  [pc |-> "idle", req |-> NoRequest, wrap |-> FALSE,
   pending |-> NoPending, resp |-> NoResponse]

\* The list objects some connection in c still refers to.
referenced(c) == UNION {Range(c[s].pending.lists) : s \in DOMAIN c}

\* Reference counting: an object nothing refers to is freed at once.
collect(h, c) == [o \in DOMAIN h \cap referenced(c) |-> h[o]]

\* The address a new object gets: the lowest one that is free.
fresh == CHOOSE o \in 1..(Cardinality(DOMAIN heap) + 1) :
           o \notin DOMAIN heap /\ \A x \in 1..(o - 1) : x \in DOMAIN heap

\* jsonable_encoder / JSONResponse.render: the lists are read when the
\* response is rendered.
render(pending, h) ==
  [k \in DOMAIN pending.lists |-> h[pending.lists[k]]] @@ pending.scalars

Init ==
  /\ env \in Environments
  /\ phase = "boot"
  /\ uvicorn_run = NotStarted
  /\ conn = [s \in Slots |-> Idle]
  /\ heap = EmptyMap
  /\ served = 0

\* ------------------------------------------------------------------ actions
\* if __name__ == "__main__": read PORT, then uvicorn.run(host, port).
\* A ValueError from int() ends the program before uvicorn.run.
Main ==
  /\ phase = "boot"
  /\ LET p == port_of(env)
     IN IF p.ok
        THEN /\ phase' = "serving"
             /\ uvicorn_run' = [host |-> Host, port |-> p.value]
        ELSE /\ phase' = "crashed"
             /\ uvicorn_run' = uvicorn_run
  /\ UNCHANGED <<env, conn, heap, served>>

\* The server accepts a request on a free connection.
Receive(S, R) ==
  /\ phase = "serving"
  /\ served < MaxServed
  /\ \E s \in S :
       /\ conn[s].pc = "idle"
       /\ \E r \in R :
            conn' = [conn EXCEPT ![s] = [Idle EXCEPT !.pc = "cors", !.req = r]]
  /\ UNCHANGED <<env, phase, uvicorn_run, heap, served>>

\* CORSMiddleware.__call__
CORSMiddlewareCall(s) ==
  /\ conn[s].pc = "cors"
  /\ LET req == conn[s].req
     IN conn' =
          IF req.origin = None
          THEN [conn EXCEPT ![s].pc = "router"]
          ELSE IF req.method = "OPTIONS" /\ req.acrm # None
          THEN [conn EXCEPT ![s].pc = "done", ![s].resp = preflight_response(req)]
          ELSE [conn EXCEPT ![s].pc = "router", ![s].wrap = TRUE]
  /\ UNCHANGED <<env, phase, uvicorn_run, heap, served>>

JsonType == "content-type" :> "application/json"

\* The router and what it dispatches to: the endpoint (whose dict becomes a
\* 200 JSON response), the 405 of a route that matches the path alone, the
\* 307 of redirect_slashes, or the 404 default.
RouterCall(s) ==
  /\ conn[s].pc = "router"
  /\ LET req == conn[s].req
         d == dispatch(req.method, req.path)
         ret == call_endpoint(routes[d.route].endpoint, fresh)
     IN CASE d.kind = "endpoint" ->
               /\ heap' = ret.alloc @@ heap
               /\ conn' = [conn EXCEPT ![s].pc = "send",
                             ![s].pending = [status |-> 200, scalars |-> ret.scalars,
                                             lists |-> ret.lists, headers |-> JsonType]]
          [] d.kind = "method_not_allowed" ->
               /\ heap' = heap
               /\ conn' = [conn EXCEPT ![s].pc = "send",
                             ![s].pending =
                               [status |-> 405,
                                scalars |-> [detail |-> "Method Not Allowed"],
                                lists |-> EmptyMap,
                                headers |-> ("allow" :> routes[d.route].methods)
                                            @@ JsonType]]
          [] d.kind = "redirect" ->
               /\ heap' = heap
               /\ conn' = [conn EXCEPT ![s].pc = "send",
                             ![s].pending =
                               [status |-> 307, scalars |-> [text |-> <<>>],
                                lists |-> EmptyMap,
                                headers |-> "location" :>
                                  [path |-> redirect_path(req.path),
                                   query |-> req.query]]]
          [] d.kind = "not_found" ->
               /\ heap' = heap
               /\ conn' = [conn EXCEPT ![s].pc = "send",
                             ![s].pending =
                               [status |-> 404, scalars |-> [detail |-> "Not Found"],
                                lists |-> EmptyMap, headers |-> JsonType]]
  /\ UNCHANGED <<env, phase, uvicorn_run, served>>

\* The response is rendered and sent, through CORSMiddleware.send when the
\* request carried an Origin header; the endpoint's dict is dropped.
Send(s) ==
  /\ conn[s].pc = "send"
  /\ LET c == conn[s]
         sent == [status |-> c.pending.status,
                  body |-> render(c.pending, heap),
                  headers |-> IF c.wrap
                              THEN cors_send_headers(c.req, c.pending.headers)
                              ELSE c.pending.headers]
         after == [conn EXCEPT ![s].pc = "done", ![s].resp = sent,
                                ![s].pending = NoPending]
     IN /\ conn' = after
        /\ heap' = collect(heap, after)
  /\ UNCHANGED <<env, phase, uvicorn_run, served>>

\* The request is over and the connection is free again.
Close(s) ==
  /\ conn[s].pc = "done"
  /\ conn' = [conn EXCEPT ![s] = Idle]
  /\ served' = served + 1
  /\ UNCHANGED <<env, phase, uvicorn_run, heap>>

\* reload=True: the supervisor restarts the worker, which imports main:app
\* again; requests in flight are lost, the listening socket is kept.
Reload ==
  /\ phase = "serving"
  /\ \E s \in Slots : conn[s].pc # "idle"
  /\ conn' = [s \in Slots |-> Idle]
  /\ heap' = EmptyMap
  /\ UNCHANGED <<env, phase, uvicorn_run, served>>

\* One request at a time, over every request of the model.
Next ==
  \/ Main
  \/ Receive({1}, Requests)
  \/ CORSMiddlewareCall(1)
  \/ RouterCall(1)
  \/ Send(1)
  \/ Close(1)
  \/ Reload

Spec == Init /\ [][Next]_vars

\* Up to MaxInFlight requests at a time, in any interleaving of their steps.
ConcInit == Init /\ env = Unset

ConcNext ==
  \/ Main
  \/ Receive(Slots, ConcRequests)
  \/ \E s \in Slots : CORSMiddlewareCall(s)
  \/ \E s \in Slots : RouterCall(s)
  \/ \E s \in Slots : Send(s)
  \/ \E s \in Slots : Close(s)
  \/ Reload

ConcSpec == ConcInit /\ [][ConcNext]_vars

\* ------------------------------------------------------------------ claims
Done(s) == conn[s].pc = "done"
Req(s) == conn[s].req
Resp(s) == conn[s].resp

\* A cross-origin preflight: OPTIONS with an Origin and an
\* Access-Control-Request-Method header.
IsPreflight(r) == r.method = "OPTIONS" /\ r.origin # None /\ r.acrm # None

RegisteredPaths == AppPaths \cup DocPaths

\* C1: every GET /api/v1/anomalies is answered 200 with total 0, an empty
\* anomalies sequence and the message "No anomalies detected", however many
\* requests were served before it.
C1_AnomaliesAlwaysEmpty ==
  \A s \in Slots :
    (Done(s) /\ Req(s).method = "GET" /\ Req(s).path = AnomaliesPath)
      => /\ Resp(s).status = 200
         /\ Resp(s).body = [anomalies |-> <<>>, total |-> 0,
                            message |-> "No anomalies detected"]

\* C1 witness: an anomalies request answered after an earlier request was served.
C1_Witness ==
  \E s \in Slots :
    /\ Done(s) /\ Req(s).method = "GET" /\ Req(s).path = AnomaliesPath
    /\ served >= 1
    /\ Resp(s).body.total = 0

\* C2: every GET / is answered 200 with exactly the two keys message and
\* version, whatever its headers and query string.
C2_RootExact ==
  \A s \in Slots :
    (Done(s) /\ Req(s).method = "GET" /\ Req(s).path = RootPath)
      => /\ Resp(s).status = 200
         /\ Resp(s).body = [message |-> "TX Analyzer API", version |-> "1.0.0"]

\* C2 witness: GET / with a query string, an Origin and a Cookie header.
C2_Witness ==
  \E s \in Slots :
    /\ Done(s) /\ Req(s).method = "GET" /\ Req(s).path = RootPath
    /\ Req(s).query # "" /\ Req(s).origin # None /\ Req(s).cookie
    /\ Resp(s).status = 200

\* C3: every GET /health is answered 200 with exactly the two keys status
\* and service, whatever its headers and query string.
C3_HealthExact ==
  \A s \in Slots :
    (Done(s) /\ Req(s).method = "GET" /\ Req(s).path = HealthPath)
      => /\ Resp(s).status = 200
         /\ Resp(s).body = [status |-> "healthy", service |-> "tx-analyzer"]

\* C3 witness: GET /health with a query string and CORS request headers.
C3_Witness ==
  \E s \in Slots :
    /\ Done(s) /\ Req(s).method = "GET" /\ Req(s).path = HealthPath
    /\ Req(s).query # "" /\ Req(s).origin # None /\ Req(s).acrh # None
    /\ Resp(s).body.status = "healthy"

\* C4: every GET /api/v1/analyze is answered 200 with the message, the
\* status "not implemented" and the four features in their order.
C4_AnalyzeFeatures ==
  \A s \in Slots :
    (Done(s) /\ Req(s).method = "GET" /\ Req(s).path = AnalyzePath)
      => /\ Resp(s).status = 200
         /\ Resp(s).body.message = "Transaction analysis endpoint"
         /\ Resp(s).body.status = "not implemented"
         /\ Resp(s).body.features =
              <<"Anomaly detection", "Risk scoring",
                "Whale identification", "Pattern recognition">>
         /\ DOMAIN Resp(s).body = {"message", "status", "features"}

\* C4 witness: an analyze request answered with four features.
C4_Witness ==
  \E s \in Slots :
    /\ Done(s) /\ Req(s).method = "GET" /\ Req(s).path = AnalyzePath
    /\ Len(Resp(s).body.features) = 4

\* The four routes' payloads as the specification's HTTP surface lists them.
ExpectedPayload(path) ==
  CASE path = RootPath -> [message |-> "TX Analyzer API", version |-> "1.0.0"]
    [] path = HealthPath -> [status |-> "healthy", service |-> "tx-analyzer"]
    [] path = AnalyzePath ->
         [message |-> "Transaction analysis endpoint", status |-> "not implemented",
          features |-> <<"Anomaly detection", "Risk scoring",
                         "Whale identification", "Pattern recognition">>]
    [] path = AnomaliesPath ->
         [anomalies |-> <<>>, total |-> 0, message |-> "No anomalies detected"]
FourPayloads == {ExpectedPayload(p) : p \in AppPaths}

StripNewline(p) ==
  IF Len(p) > 0 /\ p[Len(p)] = NL THEN SubSeq(p, 1, Len(p) - 1) ELSE p
\* The path is a registered one, or a registered one followed by one newline.
MatchesRoute(p) == p \in RegisteredPaths \/ (p # StripNewline(p) /\ StripNewline(p) \in RegisteredPaths)
\* The path matches no route, and matches one once its trailing slashes are
\* removed (or, when it has none, once a slash is added).
SlashVariant(p) ==
  /\ p # RootPath
  /\ ~MatchesRoute(p)
  /\ IF endswith_slash(p) THEN MatchesRoute(rstrip(p)) ELSE MatchesRoute(Append(p, "/"))

C6_MethodNotAllowed ==
  \A s \in Slots :
    (Done(s) /\ Req(s).path \in AppPaths /\ Req(s).method # "GET"
       /\ ~IsPreflight(Req(s)))
      => /\ Resp(s).status = 405
         /\ Resp(s).body = [detail |-> "Method Not Allowed"]
         /\ Resp(s).headers["allow"] = {"GET"}

\* C6 witness: an OPTIONS on / that names a requested method but has no
\* Origin header (so it is no preflight), refused with 405.
C6_Witness ==
  \E s \in Slots :
    /\ Done(s) /\ Req(s).path = RootPath /\ Resp(s).status = 405
    /\ Req(s).method = "OPTIONS" /\ Req(s).origin = None /\ Req(s).acrm # None

SevenMethods == {"DELETE", "GET", "HEAD", "OPTIONS", "PATCH", "POST", "PUT"}

\* C7 as stated: a preflight against any of the four routes is never
\* rejected: the origin, every requested method and every requested header
\* are allowed, with credentials.
C7_Original ==
  \A s \in Slots :
    (Done(s) /\ IsPreflight(Req(s)) /\ Req(s).path \in AppPaths)
      => /\ Resp(s).status = 200
         /\ Resp(s).headers[ACAO] \in {"*", Req(s).origin}
         /\ Req(s).acrm \in Resp(s).headers[ACAM]
         /\ Resp(s).headers[ACAC] = "true"

\* C7 amended: a preflight against any path is answered by the CORS layer
\* before routing, never by the route's 405: the origin is echoed, requested
\* headers are mirrored, credentials are allowed, and the allowed methods
\* are DELETE, GET, HEAD, OPTIONS, PATCH, POST, PUT; a preflight that
\* requests one of these is answered 200, one that requests any other
\* method (TRACE) is rejected with 400 "Disallowed CORS method".
C7_Preflight ==
  \A s \in Slots :
    (Done(s) /\ IsPreflight(Req(s)))
      => LET r == Req(s)
             a == Resp(s)
         IN /\ conn[s].pending = NoPending /\ ~conn[s].wrap
            /\ {ACAO, ACAC, ACAM} \subseteq DOMAIN a.headers
            /\ a.headers[ACAO] = r.origin
            /\ a.headers[ACAC] = "true"
            /\ a.headers[ACAM] = SevenMethods
            /\ r.acrh # None => (ACAH \in DOMAIN a.headers /\ a.headers[ACAH] = r.acrh)
            /\ IF r.acrm \in SevenMethods
               THEN a.status = 200 /\ a.body = [text |-> <<"OK">>]
               ELSE a.status = 400 /\ a.body = [text |-> <<"Disallowed CORS", "method">>]

\* C7 witness: a preflight for PUT with requested headers, answered 200.
C7_Witness ==
  \E s \in Slots :
    /\ Done(s) /\ IsPreflight(Req(s)) /\ Req(s).path \in AppPaths
    /\ Req(s).acrm = "PUT" /\ Req(s).acrh # None
    /\ Resp(s).status = 200

\* C8 as stated: every response carries Access-Control-Allow-Origin and
\* Access-Control-Allow-Credentials.
C8_Original ==
  \A s \in Slots :
    Done(s) =>
      /\ {ACAO, ACAC} \subseteq DOMAIN Resp(s).headers
      /\ Resp(s).headers[ACAO] \in {"*", Req(s).origin}
      /\ Resp(s).headers[ACAC] = "true"

\* The CORS headers a request is owed, from its method and headers alone.
ExpectedCors(r) ==
  IF r.origin = None THEN EmptyMap
  ELSE IF IsPreflight(r)
  THEN (ACAO :> r.origin) @@ (ACAC :> "true") @@ (ACAM :> SevenMethods)
       @@ (ACMA :> "600") @@ (VARY :> "Origin")
       @@ (IF r.acrh # None THEN (ACAH :> r.acrh) ELSE EmptyMap)
  ELSE IF r.cookie
  THEN (ACAO :> r.origin) @@ (ACAC :> "true") @@ (VARY :> "Origin")
  ELSE (ACAO :> "*") @@ (ACAC :> "true")

CorsPart(h) == [n \in DOMAIN h \cap (CorsHeaderNames \cup {VARY}) |-> h[n]]

\* C8 amended: the response to a request that carries an Origin header has
\* Access-Control-Allow-Origin ("*", or the caller's origin when the request
\* has a cookie or is a preflight) and Access-Control-Allow-Credentials:
\* true; the response to a request without Origin has no CORS header; the
\* CORS headers depend on the request's method and headers only, not on the
\* route or the status.
C8_CorsHeaders ==
  \A s \in Slots :
    Done(s) => CorsPart(Resp(s).headers) = ExpectedCors(Req(s))

\* C8 witness: a 405 on /health, sent with an Origin header and a cookie,
\* that carries the caller's origin and the credentials header.
C8_Witness ==
  \E s \in Slots :
    /\ Done(s) /\ Req(s).origin # None /\ Req(s).cookie
    /\ Req(s).path = HealthPath /\ Resp(s).status = 405
    /\ ACAO \in DOMAIN Resp(s).headers
    /\ Resp(s).headers[ACAO] = Req(s).origin
    /\ Resp(s).headers[ACAC] = "true"

IsDigits(str) == Len(str) > 0 /\ \A i \in 1..Len(str) : str[i] \in DOMAIN Digit
RECURSIVE DecimalValue(_)
\* The number a digit string writes: its last digit plus ten times the rest.
DecimalValue(str) ==
  IF str = <<>> THEN 0
  ELSE Digit[str[Len(str)]] + 10 * DecimalValue(SubSeq(str, 1, Len(str) - 1))

\* C9: once the server runs, it was started on host 0.0.0.0 and on port
\* 8002 when PORT is unset, on the number PORT writes when it is set to
\* digits; this holds in every later state, whatever requests are served.
C9_PortFromEnv ==
  phase = "serving" =>
    /\ uvicorn_run.host = "0.0.0.0"
    /\ ~env.set => uvicorn_run.port = 8002
    /\ (env.set /\ IsDigits(env.value)) => uvicorn_run.port = DecimalValue(env.value)

\* C9 witness: PORT=9000, the server on port 9000 after serving requests.
C9_Witness ==
  /\ phase = "serving"
  /\ env.set /\ env.value = <<"9", "0", "0", "0">>
  /\ uvicorn_run.port = 9000
  /\ served = MaxServed

\* C10: with several requests in flight in any interleaving, each GET to
\* one of the four routes is answered 200 with its route's payload, no two
\* requests hold the same list object, and every list a request holds has
\* the content its endpoint gave it.
C10_Independent ==
  /\ \A s \in Slots :
       (Done(s) /\ Req(s).method = "GET" /\ Req(s).path \in AppPaths)
         => Resp(s).status = 200 /\ Resp(s).body = ExpectedPayload(Req(s).path)
  /\ \A s, t \in Slots :
       s # t => Range(conn[s].pending.lists) \cap Range(conn[t].pending.lists) = {}
  /\ \A s \in Slots : \A k \in DOMAIN conn[s].pending.lists :
       /\ conn[s].pending.lists[k] \in DOMAIN heap
       /\ heap[conn[s].pending.lists[k]] = ExpectedPayload(Req(s).path)[k]

\* C10 witness: two analyze requests in flight, one answered while the
\* other still holds its features list.
C10_Witness ==
  \E s, t \in Slots :
    /\ s # t
    /\ Done(s) /\ Req(s).path = AnalyzePath /\ Req(s).method = "GET"
    /\ conn[t].pc = "send" /\ Req(t).path = AnalyzePath /\ Req(t).method = "GET"
    /\ Resp(s).status = 200

====
